---- MODULE Spec2Model ----
(***************************************************************************)
(* The ingestion and retrieval scripts of the social-media RAG demo:       *)
(*   knowledge/scripts/save_posts.py    fetch_and_save_posts               *)
(*   knowledge/scripts/load_posts.py    create_document_metadata,          *)
(*                                      generate_documents, load_posts     *)
(*   knowledge/scripts/valid_filters.py initialize_knowledge_filters       *)
(*   agent.py                           the agent entry point              *)
(*                                                                         *)
(* JSON values are opaque tokens (strings): the scripts only move them     *)
(* around.  The agno library (Document, JSONKnowledgeBase.load_documents,  *)
(* Agent.print_response) and the operating system are the environment:     *)
(* whether a store write or a file write raises is an input.               *)
(***************************************************************************)
EXTENDS Integers, Sequences, FiniteSets, TLC

\* ------------------------------------------------------------- bounds
\* Files in knowledge/files when load_posts.py starts.
MaxFiles == 2
\* Records in one API response.
MaxPosts == 2
\* Ids 1..MaxId occur in API records (besides records without an id).
MaxId == 2
\* Runs of save_posts.py against the same response.
MaxRuns == 2
\* Calls of initialize_knowledge_filters on one knowledge base.
MaxCalls == 3

\* -------------------------------------------------------- JSON values
\* Python's None, as json.load returns it for null and as dict.get returns
\* it for a missing key without default.
PyNone == "None"
\* The defaults of create_document_metadata.
EmptyList == "[]"
EmptyDict == "{}"
Zero == "0"

Fields == {"id", "title", "body", "tags", "reactions", "views", "userId"}

\* A record of the API: a JSON object, a function from the keys it has to
\* their values.
RecordOf(id, title, body, tags, reactions, views, userId) ==
    LET given == { p \in { <<"id", id>>, <<"title", title>>, <<"body", body>>,
                           <<"tags", tags>>, <<"reactions", reactions>>,
                           <<"views", views>>, <<"userId", userId>> } :
                   p[2] # "absent" }
    IN  [ k \in { p[1] : p \in given } |->
            (CHOOSE p \in given : p[1] = k)[2] ]

\* ------------------------------------------------------ files on disk
\* The text of a file: what json.dump wrote, something json.load rejects,
\* JSON that is not an object, a file cut short by a failed write, or no
\* file of that name.
NoFile == [kind |-> "nofile", members |-> {}]
Garbage == [kind |-> "garbage", members |-> {}]
NonObject == [kind |-> "nonobject", members |-> {}]
Partial == [kind |-> "partial", members |-> {}]

\* json.dump(post, f, ensure_ascii=False, indent=2): the object's members.
JsonDump(post) ==
    [kind |-> "object", members |-> { <<k, post[k]>> : k \in DOMAIN post }]

\* json.load(f): raises on text that is not JSON; otherwise the value, which
\* is a dict only for an object.
JsonLoad(text) ==
    IF text.kind \notin {"object", "nonobject"}
    THEN [raised |-> TRUE, isdict |-> FALSE, data |-> << >>]
    ELSE [raised |-> FALSE,
          isdict |-> text.kind = "object",
          data |-> [ k \in { m[1] : m \in text.members } |->
                       (CHOOSE m \in text.members : m[1] = k)[2] ]]

\* post_data.get(key, default)
DictGet(data, key, default) ==
    IF key \in DOMAIN data THEN data[key] ELSE default

\* ------------------------------------------- create_document_metadata
NoDocument ==
    [content |-> "", name |-> "",
     meta_data |-> [tags |-> "", reactions |-> "", views |-> ""]]
NoFilters == [user_id |-> ""]

\* A variant that asks for userId without a default, as
\* post_data.get("userId") would: C8 is checked against it.
create_document_metadata_NoDefault(post_data) ==
    IF ~post_data.isdict
       \/ "body" \notin DOMAIN post_data.data
       \/ "title" \notin DOMAIN post_data.data
    THEN [raised |-> TRUE, document |-> NoDocument, filters |-> NoFilters]
    ELSE [raised |-> FALSE,
          document |->
            [content |-> post_data.data["body"],
             name |-> post_data.data["title"],
             meta_data |->
               [tags |-> DictGet(post_data.data, "tags", EmptyList),
                reactions |-> DictGet(post_data.data, "reactions", EmptyDict),
                views |-> DictGet(post_data.data, "views", Zero)]],
          filters |-> [user_id |-> DictGet(post_data.data, "userId", PyNone)]]

\* load_posts.py:36-58.  The .get calls raise AttributeError on a value that
\* is no dict; post_data["body"] and post_data["title"] raise KeyError.
create_document_metadata(post_data) ==
    IF ~post_data.isdict
       \/ "body" \notin DOMAIN post_data.data
       \/ "title" \notin DOMAIN post_data.data
    THEN [raised |-> TRUE, document |-> NoDocument, filters |-> NoFilters]
    ELSE [raised |-> FALSE,
          document |->
            [content |-> post_data.data["body"],
             name |-> post_data.data["title"],
             meta_data |->
               [tags |-> DictGet(post_data.data, "tags", EmptyList),
                reactions |-> DictGet(post_data.data, "reactions", EmptyDict),
                views |-> DictGet(post_data.data, "views", Zero)]],
          filters |-> [user_id |-> DictGet(post_data.data, "userId", Zero)]]

\* --------------------------------------- initialize_knowledge_filters
\* knowledge_base.valid_metadata_filters: None, a set of keys, or a value
\* the try block fails on (the attribute is missing, or has no .add).
KbNone == [state |-> "none", keys |-> {}]
KbSet(ks) == [state |-> "set", keys |-> ks]
KbUnusable == [state |-> "unusable", keys |-> {}]

\* The keys a knowledge base honours.
Registered(vmf) == IF vmf.state = "set" THEN vmf.keys ELSE {}

\* A variant that assigns a fresh set on every call instead of adding to
\* the one there: C5 is checked against it.
initialize_knowledge_filters_Reset(vmf) ==
    IF vmf.state = "unusable"
    THEN [vmf |-> vmf, failed |-> TRUE]
    ELSE [vmf |-> KbSet({"user_id"}), failed |-> FALSE]

\* valid_filters.py:1-16.  The except branch prints and returns: the failure
\* never reaches the caller.
initialize_knowledge_filters(vmf) ==
    IF vmf.state = "unusable"
    THEN [vmf |-> vmf, failed |-> TRUE]
    ELSE [vmf |-> KbSet(Registered(vmf) \cup {"user_id"}), failed |-> FALSE]

\* ---------------------------------------------------------------- state
VARIABLES
    \* save_posts.py
    apiResponse,    \* what requests.get and resp.json() give this process
    disk,           \* knowledge/files: file name -> text
    fpc,            \* "start", "loop", "done", "failed" (an exception left)
    fi,             \* index of the next post of the for loop
    runs,           \* runs of save_posts.py started so far
    wlog,           \* files saved by the current run's completed iterations
    diskAtStart,    \* the directory when the current run started
    snapshots,      \* the directory at the end of each run that completed
    \* load_posts.py
    lpc,            \* "start", "generate", "load", "done"
    json_files,     \* generate_documents: the directory listing
    gi,             \* index of the next file of the for loop
    documents,      \* generate_documents: the (document, filters) pairs
    genErrors,      \* files reported by the except branch, in order
    failing,        \* positions of documents whose load_documents call raises
    li,             \* index of the next pair of load_posts's for loop
    store,          \* pairs load_documents accepted, in order
    loadErrors,     \* times load_posts's except branch printed
    vmfL,           \* valid_metadata_filters of load_posts.py's knowledge base
    writes,         \* every load_documents call made, in order
    \* agent.py
    apc,            \* "init", "query", "done"
    vmfA,           \* valid_metadata_filters of agent.py's knowledge base
    initCalls,      \* calls of initialize_knowledge_filters so far
    vmfTrail,       \* vmfA at start and after each call
    queries         \* every agent.print_response call made, in order

fetchVars == <<apiResponse, disk, fpc, fi, runs, wlog, diskAtStart,
               snapshots>>
genVars == <<lpc, json_files, gi, documents, genErrors>>
loadVars == <<failing, li, store, loadErrors, vmfL, writes>>
agentVars == <<apc, vmfA, initCalls, vmfTrail, queries>>
vars == <<fetchVars, genVars, loadVars, agentVars>>

\* ------------------------------------------------------------ inputs
Ids == { ToString(i) : i \in 1..MaxId }

\* post_<id>.json, named here by <id>; a record without id gives
\* post_None.json.
FileNames == Ids \cup {PyNone}

\* The files of the directory load_posts.py is run on.
DirNames == { ToString(i) : i \in 1..MaxFiles }

\* Records a directory may hold: complete, only the required fields, an empty
\* body, no title, no body.
FullPost == RecordOf("1", "T", "B", "[history]", "{likes:1}", "5", "7")
MinimalPost ==
    RecordOf("absent", "T", "B", "absent", "absent", "absent", "absent")
EmptyBodyPost ==
    RecordOf("2", "T", "", "absent", "absent", "absent", "7")
NoTitlePost ==
    RecordOf("1", "absent", "B", "absent", "absent", "absent", "7")
NoBodyPost ==
    RecordOf("1", "T", "absent", "absent", "absent", "absent", "absent")

DirTexts ==
    {Garbage, NonObject}
    \cup { JsonDump(p) : p \in {FullPost, MinimalPost, EmptyBodyPost,
                                NoTitlePost, NoBodyPost} }

\* What a freshly constructed JSONKnowledgeBase holds in
\* valid_metadata_filters: the library's default, or no such attribute.
KbDefaults == {KbNone, KbUnusable}

\* The listings glob may return for a directory: its files in any order.
Present(d) == { n \in DOMAIN d : d[n] # NoFile }
Listings(d) ==
    { s \in [1..Cardinality(Present(d)) -> Present(d)] :
        \A i, j \in DOMAIN s : i # j => s[i] # s[j] }

\* ---------------------------------------------------- generate_documents
\* The outcome of one iteration of the for loop (load_posts.py:71-86) on the
\* text of a file: open and json.load, then create_document_metadata; any
\* exception is caught and reported.
ProcessFile(text) ==
    LET post_data == JsonLoad(text)
    IN  IF post_data.raised
        THEN [raised |-> TRUE, document |-> NoDocument, filters |-> NoFilters]
        ELSE create_document_metadata(post_data)

\* load_posts.py:63-69: list the directory.
GenStart ==
    /\ lpc = "start"
    /\ json_files' \in Listings(disk)
    /\ gi' = 1
    /\ lpc' = "generate"
    /\ UNCHANGED <<documents, genErrors>>
    /\ UNCHANGED <<fetchVars, loadVars, agentVars>>

\* A variant whose try encloses the whole loop, so that the first bad file
\* ends it: C2 is checked against it.
GenFile_AbortOnError ==
    /\ lpc = "generate"
    /\ gi <= Len(json_files)
    /\ LET r == ProcessFile(disk[json_files[gi]])
       IN  \/ /\ ~r.raised
              /\ documents' =
                   Append(documents,
                          [document |-> r.document, filters |-> r.filters])
              /\ gi' = gi + 1
              /\ UNCHANGED genErrors
           \/ /\ r.raised
              /\ genErrors' = Append(genErrors, json_files[gi])
              /\ gi' = Len(json_files) + 1
              /\ UNCHANGED documents
    /\ UNCHANGED <<lpc, json_files>>
    /\ UNCHANGED <<fetchVars, loadVars, agentVars>>

\* load_posts.py:71-86: one file.
GenFile ==
    /\ lpc = "generate"
    /\ gi <= Len(json_files)
    /\ LET r == ProcessFile(disk[json_files[gi]])
       IN  \/ /\ ~r.raised
              /\ documents' =
                   Append(documents,
                          [document |-> r.document, filters |-> r.filters])
              /\ UNCHANGED genErrors
           \/ /\ r.raised
              /\ genErrors' = Append(genErrors, json_files[gi])
              /\ UNCHANGED documents
    /\ gi' = gi + 1
    /\ UNCHANGED <<lpc, json_files>>
    /\ UNCHANGED <<fetchVars, loadVars, agentVars>>

\* load_posts.py:88-96 and 108-109: generate_documents returns; load_posts
\* enters its loop, or prints "No documents to load" and returns.
GenReturn ==
    /\ lpc = "generate"
    /\ gi > Len(json_files)
    /\ \/ /\ documents # << >>
          /\ lpc' = "load"
       \/ /\ documents = << >>
          /\ lpc' = "done"
    /\ UNCHANGED <<json_files, gi, documents, genErrors>>
    /\ UNCHANGED <<fetchVars, loadVars, agentVars>>

\* ------------------------------------------------------------ load_posts
\* load_posts.py:97-107: one load_documents call.  The try encloses the whole
\* for loop: the first call that raises ends the loop.
LoadDoc ==
    /\ lpc = "load"
    /\ li <= Len(documents)
    /\ writes' =
         Append(writes,
                [document |-> documents[li].document,
                 filters |-> documents[li].filters,
                 position |-> li,
                 registered |-> Registered(vmfL),
                 raised |-> li \in failing])
    /\ \/ /\ li \notin failing
          /\ store' = Append(store, documents[li])
          /\ li' = li + 1
          /\ UNCHANGED <<lpc, loadErrors>>
       \/ /\ li \in failing
          /\ loadErrors' = loadErrors + 1
          /\ lpc' = "done"
          /\ UNCHANGED <<store, li>>
    /\ UNCHANGED <<failing, vmfL>>
    /\ UNCHANGED <<json_files, gi, documents, genErrors>>
    /\ UNCHANGED <<fetchVars, agentVars>>

\* load_posts.py:103-105: the loop ended without an exception.
LoadSuccess ==
    /\ lpc = "load"
    /\ li > Len(documents)
    /\ lpc' = "done"
    /\ UNCHANGED <<json_files, gi, documents, genErrors>>
    /\ UNCHANGED <<fetchVars, loadVars, agentVars>>

\* ------------------------------------------------- fetch_and_save_posts
\* The file a post is saved to (save_posts.py:36-37).
FileNameOf(post) == DictGet(post, "id", PyNone)

\* save_posts.py:31-33: requests.get, resp.json() and data.get("posts", []).
\* A network or decode error is an exception nothing catches.
FetchRequest ==
    /\ fpc = "start"
    /\ \/ /\ apiResponse.kind = "ok"
          /\ fpc' = "loop"
       \/ /\ apiResponse.kind # "ok"
          /\ fpc' = "failed"
    /\ fi' = 1
    /\ UNCHANGED <<apiResponse, disk, runs, wlog, diskAtStart, snapshots>>
    /\ UNCHANGED <<genVars, loadVars, agentVars>>

\* A variant that opens the file with "a": a file that exists gets a second
\* JSON text after its first, which is no JSON.  C6 is checked against it.
FetchWrite_Append ==
    /\ fpc = "loop"
    /\ fi <= Len(apiResponse.posts)
    /\ LET post == apiResponse.posts[fi]
           filename == FileNameOf(post)
       IN  \/ /\ disk' = [disk EXCEPT
                           ![filename] = IF disk[filename] = NoFile
                                         THEN JsonDump(post) ELSE Garbage]
              /\ wlog' = Append(wlog, filename)
              /\ fi' = fi + 1
              /\ UNCHANGED fpc
           \/ /\ fpc' = "failed"
              /\ UNCHANGED <<disk, wlog, fi>>
           \/ /\ disk' = [disk EXCEPT ![filename] = Partial]
              /\ fpc' = "failed"
              /\ UNCHANGED <<wlog, fi>>
           \/ /\ disk' = [disk EXCEPT ![filename] = JsonDump(post)]
              /\ fpc' = "failed"
              /\ UNCHANGED <<wlog, fi>>
    /\ UNCHANGED <<apiResponse, runs, diskAtStart, snapshots>>
    /\ UNCHANGED <<genVars, loadVars, agentVars>>

\* A variant that undoes the run's writes when a write fails.  C7 is checked
\* against it.
FetchWrite_Rollback ==
    /\ fpc = "loop"
    /\ fi <= Len(apiResponse.posts)
    /\ LET post == apiResponse.posts[fi]
           filename == FileNameOf(post)
       IN  \/ /\ disk' = [disk EXCEPT ![filename] = JsonDump(post)]
              /\ wlog' = Append(wlog, filename)
              /\ fi' = fi + 1
              /\ UNCHANGED fpc
           \/ /\ disk' = diskAtStart
              /\ fpc' = "failed"
              /\ UNCHANGED <<wlog, fi>>
    /\ UNCHANGED <<apiResponse, runs, diskAtStart, snapshots>>
    /\ UNCHANGED <<genVars, loadVars, agentVars>>

\* save_posts.py:35-40: one post.  open(filename, "w") creates or truncates
\* the file; it may raise before it touches the file, json.dump may raise
\* after the truncation, and the close may raise after the last byte.
\* Nothing catches any of them.  (print is taken to succeed.)
FetchWrite ==
    /\ fpc = "loop"
    /\ fi <= Len(apiResponse.posts)
    /\ LET post == apiResponse.posts[fi]
           filename == FileNameOf(post)
       IN  \/ /\ disk' = [disk EXCEPT ![filename] = JsonDump(post)]
              /\ wlog' = Append(wlog, filename)
              /\ fi' = fi + 1
              /\ UNCHANGED fpc
           \/ /\ fpc' = "failed"
              /\ UNCHANGED <<disk, wlog, fi>>
           \/ /\ disk' = [disk EXCEPT ![filename] = Partial]
              /\ fpc' = "failed"
              /\ UNCHANGED <<wlog, fi>>
           \/ /\ disk' = [disk EXCEPT ![filename] = JsonDump(post)]
              /\ fpc' = "failed"
              /\ UNCHANGED <<wlog, fi>>
    /\ UNCHANGED <<apiResponse, runs, diskAtStart, snapshots>>
    /\ UNCHANGED <<genVars, loadVars, agentVars>>

\* save_posts.py:35: the loop is exhausted and the function returns.
FetchReturn ==
    /\ fpc = "loop"
    /\ fi > Len(apiResponse.posts)
    /\ fpc' = "done"
    /\ snapshots' = Append(snapshots, disk)
    /\ UNCHANGED <<apiResponse, disk, fi, runs, wlog, diskAtStart>>
    /\ UNCHANGED <<genVars, loadVars, agentVars>>

\* save_posts.py:43-44: the script is run again, against the same response.
FetchRerun ==
    /\ fpc \in {"done", "failed"}
    /\ runs < MaxRuns
    /\ runs' = runs + 1
    /\ fpc' = "start"
    /\ fi' = 1
    /\ wlog' = << >>
    /\ diskAtStart' = disk
    /\ UNCHANGED <<apiResponse, disk, snapshots>>
    /\ UNCHANGED <<genVars, loadVars, agentVars>>

\* ---------------------------------------------------------------- agent
\* agent.py:50
AgentInitialize ==
    /\ apc = "init"
    /\ LET r == initialize_knowledge_filters(vmfA)
       IN  /\ vmfA' = r.vmf
           /\ vmfTrail' = Append(vmfTrail, r.vmf)
    /\ initCalls' = initCalls + 1
    /\ apc' = "query"
    /\ UNCHANGED queries
    /\ UNCHANGED <<fetchVars, genVars, loadVars>>

\* agent.py:52-55: the query, with knowledge_filters={"user_id": 97}.
QueryFilter == [user_id |-> "97"]

AgentQuery ==
    /\ apc = "query"
    /\ queries' =
         Append(queries,
                [filters |-> QueryFilter,
                 registered |-> Registered(vmfA)])
    /\ apc' = "done"
    /\ UNCHANGED <<vmfA, initCalls, vmfTrail>>
    /\ UNCHANGED <<fetchVars, genVars, loadVars>>

\* ------------------------------------------------------- specifications
FetchIdle ==
    /\ apiResponse = [kind |-> "ok", posts |-> << >>]
    /\ fpc = "done"
    /\ fi = 1
    /\ runs = 0
    /\ wlog = << >>
    /\ diskAtStart = disk
    /\ snapshots = << >>

GenInit ==
    /\ lpc = "start"
    /\ json_files = << >>
    /\ gi = 1
    /\ documents = << >>
    /\ genErrors = << >>

LoadInit ==
    /\ li = 1
    /\ store = << >>
    /\ loadErrors = 0
    /\ vmfL \in KbDefaults
    /\ writes = << >>

AgentInit ==
    /\ apc = "init"
    /\ vmfA \in KbDefaults
    /\ initCalls = 0
    /\ vmfTrail = <<vmfA>>
    /\ queries = << >>

\* load_posts.py and agent.py, two processes over the same store.
Init ==
    /\ disk \in [DirNames -> DirTexts \cup {NoFile}]
    /\ failing \in SUBSET (1..Cardinality(Present(disk)))
    /\ FetchIdle
    /\ GenInit
    /\ LoadInit
    /\ AgentInit

Next ==
    \/ GenStart
    \/ GenFile
    \/ GenReturn
    \/ LoadDoc
    \/ LoadSuccess
    \/ AgentInitialize
    \/ AgentQuery

Spec == Init /\ [][Next]_vars

\* save_posts.py alone, run up to MaxRuns times on a directory that may hold
\* files of earlier runs.
OldText == JsonDump(RecordOf("absent", "Old", "B", "absent", "absent",
                             "absent", "absent"))

FetchPosts ==
    { RecordOf(id, title, "B", "absent", "absent", "absent", "absent") :
        id \in Ids \cup {"absent"}, title \in {"T", "U"} }

SeqsUpTo(S, n) == UNION { [1..k -> S] : k \in 0..n }

ApiResponses ==
    { [kind |-> "ok", posts |-> ps] : ps \in SeqsUpTo(FetchPosts, MaxPosts) }
    \cup { [kind |-> k, posts |-> << >>] :
             k \in {"network_error", "decode_error"} }

FetchStart ==
    /\ fpc = "start"
    /\ fi = 1
    /\ runs = 1
    /\ wlog = << >>
    /\ diskAtStart = disk
    /\ snapshots = << >>

LoadIdle ==
    /\ failing = {}
    /\ li = 1
    /\ store = << >>
    /\ loadErrors = 0
    /\ vmfL = KbNone
    /\ writes = << >>

AgentIdle ==
    /\ apc = "done"
    /\ vmfA = KbNone
    /\ initCalls = 0
    /\ vmfTrail = <<vmfA>>
    /\ queries = << >>

InitFetch ==
    /\ apiResponse \in ApiResponses
    /\ disk \in [FileNames -> {NoFile, OldText}]
    /\ FetchStart
    /\ GenInit
    /\ LoadIdle
    /\ AgentIdle

NextFetch ==
    \/ FetchRequest
    \/ FetchWrite
    \/ FetchReturn
    \/ FetchRerun

SpecFetch == InitFetch /\ [][NextFetch]_vars

\* One record through save_posts.py and then load_posts.py.
AllPosts ==
    { RecordOf(id, title, body, tags, reactions, views, userId) :
        id \in Ids \cup {"absent"},
        title \in {"absent", "T"},
        body \in {"absent", "", "B"},
        tags \in {"absent", "[history]"},
        reactions \in {"absent", "{likes:1}"},
        views \in {"absent", "5", PyNone},
        userId \in {"absent", "7"} }

InitPipeline ==
    /\ apiResponse \in
         { [kind |-> "ok", posts |-> <<p>>] : p \in AllPosts }
         \cup { [kind |-> "decode_error", posts |-> << >>] }
    /\ disk = [n \in FileNames |-> NoFile]
    /\ FetchStart
    /\ GenInit
    /\ failing \in SUBSET {1}
    /\ li = 1
    /\ store = << >>
    /\ loadErrors = 0
    /\ vmfL = KbNone
    /\ writes = << >>
    /\ AgentIdle

NextPipeline ==
    \/ FetchRequest
    \/ FetchWrite
    \/ FetchReturn
    \/ (fpc = "done" /\ GenStart)
    \/ (fpc = "done" /\ GenFile)
    \/ (fpc = "done" /\ GenReturn)
    \/ (fpc = "done" /\ LoadDoc)
    \/ (fpc = "done" /\ LoadSuccess)

SpecPipeline == InitPipeline /\ [][NextPipeline]_vars

\* initialize_knowledge_filters called again and again on a knowledge base in
\* any state.
FilterKeys == {"user_id", "account_id", "tags", "views", "reactions"}

KbStates == {KbNone, KbUnusable} \cup { KbSet(ks) : ks \in SUBSET FilterKeys }

Reinitialize ==
    /\ initCalls < MaxCalls
    /\ LET r == initialize_knowledge_filters(vmfA)
       IN  /\ vmfA' = r.vmf
           /\ vmfTrail' = Append(vmfTrail, r.vmf)
    /\ initCalls' = initCalls + 1
    /\ UNCHANGED <<apc, queries>>
    /\ UNCHANGED <<fetchVars, genVars, loadVars>>

InitFilters ==
    /\ disk = [n \in FileNames |-> NoFile]
    /\ FetchIdle
    /\ GenInit
    /\ LoadIdle
    /\ apc = "init"
    /\ vmfA \in KbStates
    /\ initCalls = 0
    /\ vmfTrail = <<vmfA>>
    /\ queries = << >>

SpecFilters == InitFilters /\ [][Reinitialize]_vars

\* ================================================================ claims
Range(s) == { s[i] : i \in DOMAIN s }

\* ------------------------------------------------------------------ C1
\* C1: when load_posts has returned, every document whose load_documents
\* call does not raise has been written, every call that raises has been
\* reported on its own, and the run ended normally.
C1_FailuresIsolated ==
    lpc = "done" =>
        /\ \A i \in 1..Len(documents) :
             i \notin failing =>
                 \E w \in Range(writes) : w.position = i /\ ~w.raised
        /\ loadErrors = Cardinality(failing \cap (1..Len(documents)))

\* ------------------------------------------------------------------ C2
\* A file the loader cannot turn into a document: not JSON, not an object,
\* or an object without "body" or without "title".
BadFile(text) ==
    \/ text.kind # "object"
    \/ ~ \E m \in text.members : m[1] = "body"
    \/ ~ \E m \in text.members : m[1] = "title"

BadAmong(names) == { i \in DOMAIN names : BadFile(disk[names[i]]) }

\* C2: generate_documents visits every file of the directory once; after
\* each iteration the files visited so far have given one document per good
\* file and one reported error per bad file, the bad ones in the order they
\* were met; the loop can always take its next step, and at its end the N
\* files have given N-k documents and k errors.
C2_PartialFailure ==
    lpc # "start" =>
        LET visited == SubSeq(json_files, 1, gi - 1)
            bad == BadAmong(visited)
        IN  /\ gi <= Len(json_files) + 1
            /\ Range(json_files) = Present(disk)
            /\ Len(json_files) = Cardinality(Present(disk))
            /\ Len(genErrors) = Cardinality(bad)
            /\ Len(documents) = Len(visited) - Cardinality(bad)
            /\ \A e \in DOMAIN genErrors :
                 \E i \in bad :
                    /\ visited[i] = genErrors[e]
                    /\ Cardinality({ j \in bad : j < i }) = e - 1
            /\ lpc = "generate" => ENABLED (GenFile \/ GenReturn)
            /\ lpc \in {"load", "done"} => gi = Len(json_files) + 1

\* A bad file came before a good one, and both were dealt with.
C2_Witness ==
    /\ lpc \in {"load", "done"}
    /\ Len(json_files) = 2
    /\ BadFile(disk[json_files[1]])
    /\ ~BadFile(disk[json_files[2]])
    /\ Len(documents) = 1
    /\ Len(genErrors) = 1

\* ------------------------------------------------------------------ C3
\* C3: every load_documents call and every query is made with user_id in
\* the registered set of the process that makes it, and no process
\* initializes its set more than once.
C3_InitializedBeforeUse ==
    /\ \A w \in Range(writes) : "user_id" \in w.registered
    /\ \A q \in Range(queries) : "user_id" \in q.registered
    /\ initCalls <= 1

\* ------------------------------------------------------------------ C4
\* C4: every load_documents call carries a filter whose only key is user_id,
\* and that key is registered when the call is made, or the call fails, or
\* no query is ever made by a process whose set lacks the key.
C4_FilterKeysRegistered ==
    \A w \in Range(writes) :
        /\ DOMAIN w.filters = {"user_id"}
        /\ \/ DOMAIN w.filters \subseteq w.registered
           \/ w.raised
           \/ \A q \in Range(queries) : DOMAIN w.filters \subseteq q.registered

\* ----------------------------------------------------------------- C10
\* C10: no document with empty content is handed to load_documents.
C10_NoEmptyContent ==
    \A w \in Range(writes) : w.document.content # ""

\* ------------------------------------------------------------------ C5
\* C5: on a knowledge base whose valid_metadata_filters is None or a set,
\* after the first call the set holds user_id and every key it held before,
\* and every further call leaves it as it is.
C5_RegisterIdempotent ==
    vmfTrail[1].state # "unusable" =>
        \A j \in 2..Len(vmfTrail) :
            /\ vmfTrail[j].state = "set"
            /\ "user_id" \in vmfTrail[j].keys
            /\ Registered(vmfTrail[1]) \subseteq vmfTrail[j].keys
            /\ j > 2 => vmfTrail[j] = vmfTrail[j - 1]

\* A set that held another key but not user_id, initialized twice.
C5_Witness ==
    /\ initCalls >= 2
    /\ vmfTrail[1] = KbSet({"account_id"})
    /\ vmfA = KbSet({"account_id", "user_id"})

\* ------------------------------------------------------------------ C6
NamesUpTo(posts, n) == { FileNameOf(posts[j]) : j \in 1..n }

\* The last of the first n posts that is saved under this name.
LastPost(posts, n, name) ==
    posts[CHOOSE j \in 1..n :
            /\ FileNameOf(posts[j]) = name
            /\ \A k \in (j + 1)..n : FileNameOf(posts[k]) # name]

\* C6: when a run has completed, the file of every id of the response holds
\* the response's record of that id, whatever it held before; every other
\* file is as it was when the run started; and the directory is the same
\* after every completed run.
C6_FetchIdempotent ==
    fpc = "done" =>
        LET posts == apiResponse.posts
            n == Len(posts)
        IN  /\ \A name \in DOMAIN disk :
                 IF name \in NamesUpTo(posts, n)
                 THEN disk[name] = JsonDump(LastPost(posts, n, name))
                 ELSE disk[name] = diskAtStart[name]
            /\ \A i \in 2..Len(snapshots) : snapshots[i] = snapshots[1]

\* A second run over the files the first one wrote, beside a file of
\* another id.
C6_Witness ==
    /\ fpc = "done"
    /\ Len(snapshots) = 2
    /\ apiResponse.posts # << >>
    /\ \E name \in DOMAIN disk :
         /\ name \notin NamesUpTo(apiResponse.posts, Len(apiResponse.posts))
         /\ disk[name] = OldText
    /\ \E name \in NamesUpTo(apiResponse.posts, Len(apiResponse.posts)) :
         diskAtStart[name] # NoFile

\* ------------------------------------------------------------------ C7
\* What a file held when the failing iteration began.
BeforeFailure(name) ==
    IF name \in Range(wlog)
    THEN JsonDump(LastPost(apiResponse.posts, fi - 1, name))
    ELSE diskAtStart[name]

\* C7 as claimed: after a failure, the run wrote the records before the
\* failure point and no other, and every file written in full before the
\* failure still holds what was written; after a network or decode failure
\* nothing was written.
C7_NoRollbackAllFiles ==
    fpc = "failed" =>
        /\ apiResponse.kind # "ok" => disk = diskAtStart /\ wlog = << >>
        /\ Len(wlog) = fi - 1
        /\ \A j \in DOMAIN wlog : wlog[j] = FileNameOf(apiResponse.posts[j])
        /\ \A name \in DOMAIN disk :
             name \notin NamesUpTo(apiResponse.posts, fi - 1) =>
                 name \notin Range(wlog)
        /\ \A name \in Range(wlog) : disk[name] = BeforeFailure(name)

\* C7 as amended: the same, but the file of the failing record itself may be
\* left as it was, cut short or complete, also when an earlier record of the
\* run was saved under the same name; every other file is as it was before
\* the failing iteration.
C7_NoRollbackOtherFiles ==
    fpc = "failed" =>
        /\ apiResponse.kind # "ok" => disk = diskAtStart /\ wlog = << >>
        /\ Len(wlog) = fi - 1
        /\ \A j \in DOMAIN wlog : wlog[j] = FileNameOf(apiResponse.posts[j])
        /\ apiResponse.kind = "ok" =>
             \A name \in DOMAIN disk :
                IF name = FileNameOf(apiResponse.posts[fi])
                THEN disk[name] \in {BeforeFailure(name), Partial,
                                     JsonDump(apiResponse.posts[fi])}
                ELSE disk[name] = BeforeFailure(name)

\* The second record fails after the first was saved, its own file cut
\* short and the first one's still there.
C7_Witness ==
    /\ fpc = "failed"
    /\ apiResponse.kind = "ok"
    /\ fi = 2
    /\ wlog = <<FileNameOf(apiResponse.posts[1])>>
    /\ FileNameOf(apiResponse.posts[2]) # FileNameOf(apiResponse.posts[1])
    /\ disk[FileNameOf(apiResponse.posts[2])] = Partial
    /\ disk[FileNameOf(apiResponse.posts[1])] = JsonDump(apiResponse.posts[1])

\* ------------------------------------------------------------------ C8
\* C8: a record with title and body that save_posts.py saved and
\* load_posts.py then read gives one document, with content the body, name
\* the title, the record's tags, reactions and views or [], {} and 0 for
\* those it lacks, and the filter user_id = userId, or 0 without userId.
C8_DocumentOfRecord ==
    (fpc = "done" /\ lpc \in {"load", "done"} /\ apiResponse.posts # << >>) =>
        LET post == apiResponse.posts[1]
        IN  ("title" \in DOMAIN post /\ "body" \in DOMAIN post) =>
              /\ genErrors = << >>
              /\ documents =
                   << [document |->
                         [content |-> post["body"],
                          name |-> post["title"],
                          meta_data |->
                            [tags |-> IF "tags" \in DOMAIN post
                                      THEN post["tags"] ELSE "[]",
                             reactions |-> IF "reactions" \in DOMAIN post
                                           THEN post["reactions"] ELSE "{}",
                             views |-> IF "views" \in DOMAIN post
                                       THEN post["views"] ELSE "0"]],
                       filters |->
                         [user_id |-> IF "userId" \in DOMAIN post
                                      THEN post["userId"] ELSE "0"]] >>

\* The record of the specification's example (userId 7), and one with only
\* title and body, each saved and read back.
C8_Witness ==
    /\ fpc = "done"
    /\ lpc = "done"
    /\ Len(documents) = 1
    /\ Len(store) = 1
    /\ \/ /\ DOMAIN apiResponse.posts[1] = {"id", "title", "body", "userId"}
          /\ store[1].filters = [user_id |-> "7"]
       \/ /\ DOMAIN apiResponse.posts[1] = {"title", "body"}
          /\ store[1].filters = [user_id |-> "0"]

====
